---- MODULE Spec2Model ----
(***************************************************************************)
(* A model of src/app1.py, the DWLR groundwater dashboard: one render pass *)
(* of the script body (upload, per-file normalize_df, concat, sidebar      *)
(* filter, the six display panels), re-executed from the top on every      *)
(* interaction.                                                            *)
(*                                                                         *)
(* Representation.  A table is [cols, rows]: the set of its column names   *)
(* and the sequence of its rows; a row carries every field, a field of a   *)
(* column the table lacks is Null (pandas' NaN/None).  A cell is Null or    *)
(* Some(v).  District cells are strings, "NaN" being the missing value     *)
(* (read_csv reads the text NaN as missing).  Depths are integers,         *)
(* coordinates are degrees scaled by 10^4, means are exact rationals       *)
(* <<numerator, denominator>>.  A filename is a sequence of characters.    *)
(***************************************************************************)
EXTENDS Integers, Sequences, FiniteSets, TLC

VARIABLES uploaded_files, pc, error, dfs, df_all, years, districts,
          selected_years, selected_districts, df_filtered,
          stats_df, yearly_trend, yearly_change, trend_table, avg_depth,
          markers, state_summary, rendered, aggregated

vars == <<uploaded_files, pc, error, dfs, df_all, years, districts,
          selected_years, selected_districts, df_filtered,
          stats_df, yearly_trend, yearly_change, trend_table, avg_depth,
          markers, state_summary, rendered, aggregated>>

----------------------------------------------------------------------------
(* Cells *)

Null == <<>>

Some(v) == <<v>>

NaNDistrict == "NaN"

EmptyTable == [cols |-> {}, rows |-> <<>>]

----------------------------------------------------------------------------
(* Sequence helpers *)

RECURSIVE SumSeq(_)
SumSeq(s) == IF s = <<>> THEN 0 ELSE Head(s) + SumSeq(Tail(s))

RECURSIVE FlattenSeq(_)
FlattenSeq(ss) == IF ss = <<>> THEN <<>> ELSE Head(ss) \o FlattenSeq(Tail(ss))

Range(s) == {s[k] : k \in DOMAIN s}

(* the non-missing values of a column of cells, in row order *)
Present(cells) == LET keep(c) == c # Null
                  IN  [k \in DOMAIN SelectSeq(cells, keep) |-> SelectSeq(cells, keep)[k][1]]

----------------------------------------------------------------------------
(* district_coords: degrees * 10^4 *)

district_coords ==
    [Chennai |-> <<130827, 802707>>, Coimbatore |-> <<110168, 769558>>,
     Madurai |-> <<99252, 781198>>, Tiruchirappalli |-> <<107905, 787047>>,
     Salem |-> <<116643, 781460>>, Erode |-> <<113410, 777172>>,
     Vellore |-> <<129165, 791325>>, Tirunelveli |-> <<87139, 777567>>,
     Thoothukudi |-> <<87642, 781348>>, Dindigul |-> <<103624, 779695>>,
     Thanjavur |-> <<107870, 791378>>, Kancheepuram |-> <<128342, 797036>>,
     Cuddalore |-> <<117480, 797714>>, Nagapattinam |-> <<107650, 798449>>,
     Ramanathapuram |-> <<93639, 788395>>, Krishnagiri |-> <<125186, 782137>>,
     Dharmapuri |-> <<121357, 781582>>, Villupuram |-> <<119400, 795000>>,
     Namakkal |-> <<112202, 781652>>, Karur |-> <<109601, 780766>>,
     Nilgiris |-> <<114916, 767337>>, Kanyakumari |-> <<80883, 775385>>,
     Tiruvallur |-> <<131437, 799089>>, Sivaganga |-> <<98433, 784800>>,
     Virudhunagar |-> <<95680, 779624>>, Ariyalur |-> <<111381, 790786>>,
     Perambalur |-> <<112342, 788803>>, Pudukkottai |-> <<103797, 788208>>,
     Tiruvarur |-> <<107720, 796368>>, Tiruppur |-> <<111085, 773411>>]

(* the fallback point (11.0, 78.0) of district_coords.get(d, (11.0, 78.0)) *)
DefaultCoord == <<110000, 780000>>

district_coords_get(d) ==
    IF d \in DOMAIN district_coords THEN district_coords[d] ELSE DefaultCoord

InjectLatitude(d) == district_coords_get(d)[1]

InjectLongitudeSwapped(d) == district_coords_get(d)[1]

InjectLongitude(d) == district_coords_get(d)[2]

----------------------------------------------------------------------------
(* Characters of a filename.  str.isdigit() is true of the decimal digits  *)
(* and of digit characters such as the superscript two, which int() does   *)
(* not accept.                                                             *)

DecimalDigits == {"0", "1", "2", "3", "4", "5", "6", "7", "8", "9"}

SuperscriptDigits == {"sup2"}

isdigit(c) == c \in DecimalDigits \cup SuperscriptDigits

DigitValue(c) ==
    CASE c = "0" -> 0 [] c = "1" -> 1 [] c = "2" -> 2 [] c = "3" -> 3
      [] c = "4" -> 4 [] c = "5" -> 5 [] c = "6" -> 6 [] c = "7" -> 7
      [] c = "8" -> 8 [] c = "9" -> 9

(* "".join([c for c in filename if c.isdigit()]) *)
YearString(filename) == SelectSeq(filename, isdigit)

(* int(s) for a non-empty string of isdigit characters: the base-10 value, *)
(* or ValueError when a character is not a decimal digit.                  *)
RECURSIVE ParseDecimal(_)
ParseDecimal(s) ==
    IF s = <<>> THEN 0
    ELSE ParseDecimal(SubSeq(s, 1, Len(s) - 1)) * 10 + DigitValue(s[Len(s)])

int(s) ==
    IF \A k \in DOMAIN s : s[k] \in DecimalDigits
    THEN [err |-> "none", value |-> ParseDecimal(s)]
    ELSE [err |-> "ValueError", value |-> 0]

----------------------------------------------------------------------------
(* Column headers.  A header is read from the CSV as a sequence of pieces  *)
(* of text, the pieces " " and "\n" being white space.                     *)

WhiteSpace == {" ", "\n"}

RECURSIVE lstrip(_)
lstrip(h) == IF h # <<>> /\ Head(h) \in WhiteSpace THEN lstrip(Tail(h)) ELSE h

RECURSIVE rstrip(_)
rstrip(h) ==
    IF h # <<>> /\ h[Len(h)] \in WhiteSpace THEN rstrip(SubSeq(h, 1, Len(h) - 1)) ELSE h

(* str.strip() *)
strip(h) == rstrip(lstrip(h))

(* str.replace("\n", " ") *)
replace_newline(h) == [k \in DOMAIN h |-> IF h[k] = "\n" THEN " " ELSE h[k]]

RECURSIVE join(_)
join(h) == IF h = <<>> THEN "" ELSE Head(h) \o join(Tail(h))

rename_map(c) ==
    CASE c = "No of wells Monitored" -> "Wells_Monitored"
      [] c = "S No" -> "SNo"
      [] OTHER -> c

(* lines 55-62: the column names after cleaning and renaming *)
NormalizeColumns(cols) == {rename_map(join(replace_newline(strip(h)))) : h \in cols}

PercentColumns == {"% Wells 0-2 m"}

(* pd.read_csv(f): the table of the file's header and records *)
read_csv(f) == [cols |-> f.cols, rows |-> f.rows]

----------------------------------------------------------------------------
(* normalize_df *)

NeedsCoordsAnd(cols) == "Latitude" \notin cols /\ "Longitude" \notin cols

NeedsCoords(cols) == "Latitude" \notin cols \/ "Longitude" \notin cols

normalize_df(df, filename) ==
    LET cols0 == NormalizeColumns(df.cols)
        ys    == YearString(filename)
        yr    == IF ys # <<>> THEN int(ys) ELSE [err |-> "none", value |-> 0]
        year  == IF ys # <<>> THEN Some(yr.value) ELSE Null
        cols1 == cols0 \cup {"Year"}
        inject == NeedsCoords(cols1)
        cols2 == IF inject THEN cols1 \cup {"Latitude", "Longitude"} ELSE cols1
        Row(r) == [r EXCEPT !.Year = year,
                            !.Latitude  = IF inject THEN Some(InjectLatitude(r.District)) ELSE @,
                            !.Longitude = IF inject THEN Some(InjectLongitude(r.District)) ELSE @]
    IN  IF yr.err # "none" THEN [err |-> "ValueError", df |-> EmptyTable]
        ELSE IF inject /\ "District" \notin cols1 THEN [err |-> "KeyError", df |-> EmptyTable]
        ELSE [err |-> "none", df |-> [cols |-> cols2, rows |-> [k \in DOMAIN df.rows |-> Row(df.rows[k])]]]

----------------------------------------------------------------------------
(* Ordering.  sorted() and groupby order District names as Python orders   *)
(* strings (by code point); DistrictOrder lists the names the model's      *)
(* files use in that order.                                                *)

DistrictOrder == <<"Chennai", "Ooty", "Salem", "chennai">>

Rank(d) == CHOOSE k \in DOMAIN DistrictOrder : DistrictOrder[k] = d

RECURSIVE TupleLess(_, _)
TupleLess(a, b) ==
    IF a = <<>> THEN FALSE
    ELSE IF Head(a) # Head(b) THEN Head(a) < Head(b)
    ELSE TupleLess(Tail(a), Tail(b))

(* a finite set of integer tuples as the ascending sequence *)
RECURSIVE SortedTuples(_)
SortedTuples(S) ==
    IF S = {} THEN <<>>
    ELSE LET m == CHOOSE x \in S : \A y \in S \ {x} : TupleLess(x, y)
         IN  <<m>> \o SortedTuples(S \ {m})

SortedInts(S) == [k \in 1..Cardinality(S) |-> SortedTuples({<<x>> : x \in S})[k][1]]

----------------------------------------------------------------------------
(* Aggregations of one column of cells.  NaN is skipped; a group with no   *)
(* value aggregates to NaN.                                                *)

Column(rows, c) == [k \in DOMAIN rows |-> rows[k][c]]

mean(cells) ==
    LET v == Present(cells)
    IN  IF v = <<>> THEN Null ELSE Some(<<SumSeq(v), Len(v)>>)

SeqMax(v) == CHOOSE x \in Range(v) : \A y \in Range(v) : y <= x

SeqMin(v) == CHOOSE x \in Range(v) : \A y \in Range(v) : x <= y

median(cells) ==
    LET v == Present(cells)
        s == SortSeq(v, <)
        n == Len(v)
    IN  IF n = 0 THEN Null
        ELSE IF n % 2 = 1 THEN Some(<<s[(n + 1) \div 2], 1>>)
        ELSE Some(<<s[n \div 2] + s[n \div 2 + 1], 2>>)

RangeReversed(cells) ==
    LET v == Present(cells)
    IN  IF v = <<>> THEN Null ELSE Some(SeqMin(v) - SeqMax(v))

(* lambda x: x.max() - x.min() *)
RangeLambda(cells) ==
    LET v == Present(cells)
    IN  IF v = <<>> THEN Null ELSE Some(SeqMax(v) - SeqMin(v))

(* exact rationals <<n, d>>, d > 0 *)
RatSub(a, b) == <<a[1] * b[2] - b[1] * a[2], a[2] * b[2]>>

RatLessInt(a, k) == a[1] < k * a[2]

RatLeqInt(a, k) == a[1] <= k * a[2]

----------------------------------------------------------------------------
(* groupby: the groups are the distinct key tuples with no missing part,   *)
(* in ascending order.                                                     *)

HasDistrictYear(r) == r.District # NaNDistrict /\ r.Year # Null

DistrictYearKeys(rows) ==
    SortedTuples({<<Rank(rows[k].District), rows[k].Year[1]>> :
                     k \in {j \in DOMAIN rows : HasDistrictYear(rows[j])}})

GroupDistrictYear(rows, key) ==
    LET in(r) == HasDistrictYear(r) /\ <<Rank(r.District), r.Year[1]>> = key
    IN  SelectSeq(rows, in)

YearKeys(rows) ==
    SortedTuples({<<rows[k].Year[1]>> : k \in {j \in DOMAIN rows : rows[j].Year # Null}})

GroupYear(rows, key) ==
    LET in(r) == r.Year # Null /\ <<r.Year[1]>> = key
    IN  SelectSeq(rows, in)

HasStation(r) == r.District # NaNDistrict /\ r.Latitude # Null /\ r.Longitude # Null

StationKeys(rows) ==
    SortedTuples({<<Rank(rows[k].District), rows[k].Latitude[1], rows[k].Longitude[1]>> :
                     k \in {j \in DOMAIN rows : HasStation(rows[j])}})

GroupStation(rows, key) ==
    LET in(r) == HasStation(r) /\ <<Rank(r.District), r.Latitude[1], r.Longitude[1]>> = key
    IN  SelectSeq(rows, in)

----------------------------------------------------------------------------
(* calc_stats *)

calc_stats(df) ==
    LET keys == DistrictYearKeys(df.rows)
        Stat(key) ==
            LET g == GroupDistrictYear(df.rows, key)
            IN  [District     |-> DistrictOrder[key[1]],
                 Year         |-> key[2],
                 Mean_Min     |-> mean(Column(g, "Minimum")),
                 Mean_Max     |-> mean(Column(g, "Maximum")),
                 Median_Min   |-> median(Column(g, "Minimum")),
                 Median_Max   |-> median(Column(g, "Maximum")),
                 Range_MinMax |-> RangeLambda(Column(g, "Maximum"))]
    IN  IF {"Minimum", "Maximum"} \subseteq df.cols
        THEN [err |-> "none", rows |-> [k \in DOMAIN keys |-> Stat(keys[k])]]
        ELSE [err |-> "KeyError", rows |-> <<>>]

(* df.groupby("Year")[["Minimum", "Maximum"]].mean().reset_index() *)
YearlyMeans(df) ==
    LET keys == YearKeys(df.rows)
        Agg(key) ==
            LET g == GroupYear(df.rows, key)
            IN  [Year    |-> key[1],
                 Minimum |-> mean(Column(g, "Minimum")),
                 Maximum |-> mean(Column(g, "Maximum"))]
    IN  IF {"Minimum", "Maximum"} \subseteq df.cols
        THEN [err |-> "none", rows |-> [k \in DOMAIN keys |-> Agg(keys[k])]]
        ELSE [err |-> "KeyError", rows |-> <<>>]

----------------------------------------------------------------------------
(* Recharge / decline: yearly_change and its DeltaWL, the Trend label *)

(* Series.diff() over the whole column: the row above, whatever its district *)
DiffUngrouped(rows, k) ==
    IF k = 1 \/ rows[k].Minimum = Null \/ rows[k - 1].Minimum = Null THEN Null
    ELSE Some(RatSub(rows[k].Minimum[1], rows[k - 1].Minimum[1]))

(* groupby("District")["Minimum"].diff(): the previous row of the same     *)
(* district; NaN for a district's first row and when either mean is NaN.   *)
GroupDiff(rows, k) ==
    LET before == {j \in 1..(k - 1) : rows[j].District = rows[k].District}
        prev   == CHOOSE j \in before : \A i \in before : i <= j
    IN  IF before = {} THEN Null
        ELSE IF rows[k].Minimum = Null \/ rows[prev].Minimum = Null THEN Null
        ELSE Some(RatSub(rows[k].Minimum[1], rows[prev].Minimum[1]))

YearlyChangeLenient(df) ==
    LET keys == DistrictYearKeys(df.rows)
        Agg(key) == [District |-> DistrictOrder[key[1]],
                     Year     |-> key[2],
                     Minimum  |-> mean(Column(GroupDistrictYear(df.rows, key), "Minimum"))]
        means == [k \in DOMAIN keys |-> Agg(keys[k])]
        WithDelta(k) == [District |-> means[k].District, Year |-> means[k].Year,
                         Minimum |-> means[k].Minimum, DeltaWL |-> GroupDiff(means, k)]
    IN  [err |-> "none", rows |-> [k \in DOMAIN means |-> WithDelta(k)]]

(* lines 139-147: KeyError when no uploaded file had a Minimum column *)
YearlyChange(df) ==
    LET keys == DistrictYearKeys(df.rows)
        Agg(key) == [District |-> DistrictOrder[key[1]],
                     Year     |-> key[2],
                     Minimum  |-> mean(Column(GroupDistrictYear(df.rows, key), "Minimum"))]
        means == [k \in DOMAIN keys |-> Agg(keys[k])]
        WithDelta(k) == [District |-> means[k].District, Year |-> means[k].Year,
                         Minimum |-> means[k].Minimum, DeltaWL |-> GroupDiff(means, k)]
    IN  IF "Minimum" \in df.cols
        THEN [err |-> "none", rows |-> [k \in DOMAIN means |-> WithDelta(k)]]
        ELSE [err |-> "KeyError", rows |-> <<>>]

(* lambda x: Recharge if x > 0 else (Decline if x < 0 else Stable); both   *)
(* comparisons are false of NaN.                                           *)
Trend(x) ==
    IF x # Null /\ x[1][1] > 0 THEN "Recharge"
    ELSE IF x # Null /\ x[1][1] < 0 THEN "Decline"
    ELSE "Stable"

TrendTable(rows) ==
    [k \in DOMAIN rows |->
        [District |-> rows[k].District, Year |-> rows[k].Year, Minimum |-> rows[k].Minimum,
         DeltaWL |-> rows[k].DeltaWL, Trend |-> Trend(rows[k].DeltaWL)]]

AnyDeltaNaN(rows) == \E k \in DOMAIN rows : rows[k].DeltaWL = Null

(* yearly_change["DeltaWL"].isna().all() *)
AllDeltaNaN(rows) == \A k \in DOMAIN rows : rows[k].DeltaWL = Null

----------------------------------------------------------------------------
(* Spatial comparison: avg_depth and the marker colours *)

DepthThreshold == 5

AvgDepth(df) ==
    LET keys == StationKeys(df.rows)
        Agg(key) == [District  |-> DistrictOrder[key[1]],
                     Latitude  |-> key[2],
                     Longitude |-> key[3],
                     Minimum   |-> mean(Column(GroupStation(df.rows, key), "Minimum"))]
    IN  IF "Minimum" \in df.cols
        THEN [err |-> "none", rows |-> [k \in DOMAIN keys |-> Agg(keys[k])]]
        ELSE [err |-> "KeyError", rows |-> <<>>]

MarkerColorInclusive(row) ==
    IF row.Minimum # Null /\ RatLeqInt(row.Minimum[1], DepthThreshold) THEN "blue" ELSE "red"

(* color="blue" if row["Minimum"] < 5 else "red"; NaN < 5 is false *)
MarkerColor(row) ==
    IF row.Minimum # Null /\ RatLessInt(row.Minimum[1], DepthThreshold) THEN "blue" ELSE "red"

Markers(rows) ==
    [k \in DOMAIN rows |->
        [District |-> rows[k].District, location |-> <<rows[k].Latitude, rows[k].Longitude>>,
         Minimum |-> rows[k].Minimum, color |-> MarkerColor(rows[k])]]

----------------------------------------------------------------------------
(* Concatenation and the sidebar filters *)

(* pd.concat(dfs, ignore_index=True) *)
concat(tables) ==
    [cols |-> UNION {tables[k].cols : k \in DOMAIN tables},
     rows |-> FlattenSeq([k \in DOMAIN tables |-> tables[k].rows])]

YearOptionsKeepNaN(df) ==
    LET ys == YearKeys(df.rows)
        nan == IF \E k \in DOMAIN df.rows : df.rows[k].Year = Null THEN <<Null>> ELSE <<>>
    IN  nan \o [k \in DOMAIN ys |-> Some(ys[k][1])]

(* sorted(df_all["Year"].dropna().unique()) *)
YearOptions(df) ==
    LET ys == YearKeys(df.rows)
    IN  [k \in DOMAIN ys |-> Some(ys[k][1])]

(* sorted(df_all["District"].dropna().unique()) *)
DistrictOptions(df) ==
    LET ranks == SortedInts({Rank(df.rows[k].District) :
                               k \in {j \in DOMAIN df.rows : df.rows[j].District # NaNDistrict}})
    IN  [k \in DOMAIN ranks |-> DistrictOrder[ranks[k]]]

(* Series.isin(values): a missing cell matches only a missing value *)
isin(cell, values) == cell \in values

Filter(df, sel_years, sel_districts) ==
    LET keep(r) == isin(r.Year, sel_years) /\ isin(r.District, sel_districts)
    IN  [cols |-> df.cols, rows |-> SelectSeq(df.rows, keep)]

empty(df) == df.rows = <<>>

(* depth_cols = [c for c in df_filtered.columns if "%" in c] *)
depth_cols(df) == df.cols \cap PercentColumns

----------------------------------------------------------------------------
(* The render pass *)

NoError == [kind |-> "none", at |-> "none"]

PanelOrder == <<"stats", "yearly", "recharge", "map", "depth", "state">>

Fail(kind, at) ==
    /\ pc' = "failed"
    /\ error' = [kind |-> kind, at |-> at]

Fresh ==
    /\ error = NoError
    /\ dfs = <<>>
    /\ df_all = EmptyTable
    /\ years = <<>>
    /\ districts = <<>>
    /\ selected_years = {}
    /\ selected_districts = {}
    /\ df_filtered = EmptyTable
    /\ stats_df = <<>>
    /\ yearly_trend = <<>>
    /\ yearly_change = <<>>
    /\ trend_table = <<>>
    /\ avg_depth = <<>>
    /\ markers = <<>>
    /\ state_summary = <<>>
    /\ rendered = <<>>
    /\ aggregated = {}

(* line 93: nothing is rendered until a file is uploaded *)
Start ==
    /\ pc = "start"
    /\ pc' = IF uploaded_files = <<>> THEN "done" ELSE "read"
    /\ UNCHANGED <<uploaded_files, error, dfs, df_all, years, districts, selected_years,
                   selected_districts, df_filtered, stats_df, yearly_trend, yearly_change,
                   trend_table, avg_depth, markers, state_summary, rendered, aggregated>>

(* lines 95-98: one iteration of the loop over the uploaded files *)
ReadFile ==
    /\ pc = "read"
    /\ Len(dfs) < Len(uploaded_files)
    /\ LET f == uploaded_files[Len(dfs) + 1]
           r == normalize_df(read_csv(f), f.name)
       IN  IF r.err = "none"
           THEN /\ dfs' = Append(dfs, r.df)
                /\ UNCHANGED <<pc, error>>
           ELSE /\ Fail(r.err, "normalize_df")
                /\ UNCHANGED dfs
    /\ UNCHANGED <<uploaded_files, df_all, years, districts, selected_years,
                   selected_districts, df_filtered, stats_df, yearly_trend, yearly_change,
                   trend_table, avg_depth, markers, state_summary, rendered, aggregated>>

(* lines 99-104: concatenate, then the filter options *)
Concat ==
    /\ pc = "read"
    /\ Len(dfs) = Len(uploaded_files)
    /\ LET all == concat(dfs)
       IN  /\ df_all' = all
           /\ years' = YearOptions(all)
           /\ IF "District" \in all.cols
              THEN /\ districts' = DistrictOptions(all)
                   /\ pc' = "sidebar"
                   /\ UNCHANGED error
              ELSE /\ Fail("KeyError", "filters")
                   /\ UNCHANGED districts
    /\ UNCHANGED <<uploaded_files, dfs, selected_years, selected_districts, df_filtered,
                   stats_df, yearly_trend, yearly_change, trend_table, avg_depth, markers,
                   state_summary, rendered, aggregated>>

(* lines 105-111: the two multiselects return any subset of their options *)
Sidebar ==
    /\ pc = "sidebar"
    /\ \E sy \in SUBSET Range(years), sd \in SUBSET Range(districts) :
          /\ selected_years' = sy
          /\ selected_districts' = sd
          /\ df_filtered' = Filter(df_all, sy, sd)
    /\ pc' = "stats"
    /\ UNCHANGED <<uploaded_files, error, dfs, df_all, years, districts, stats_df,
                   yearly_trend, yearly_change, trend_table, avg_depth, markers,
                   state_summary, rendered, aggregated>>

(* lines 116-121 *)
StatsPanel ==
    /\ pc = "stats"
    /\ IF ~ empty(df_filtered)
       THEN LET r == calc_stats(df_filtered)
            IN  /\ aggregated' = aggregated \cup {"stats"}
                /\ IF r.err = "none"
                   THEN /\ stats_df' = r.rows
                        /\ rendered' = Append(rendered, [panel |-> "stats", kind |-> "dataframe"])
                        /\ pc' = "yearly"
                        /\ UNCHANGED error
                   ELSE /\ Fail(r.err, "stats")
                        /\ UNCHANGED <<stats_df, rendered>>
       ELSE /\ rendered' = Append(rendered, [panel |-> "stats", kind |-> "warning"])
            /\ pc' = "yearly"
            /\ UNCHANGED <<error, stats_df, aggregated>>
    /\ UNCHANGED <<uploaded_files, dfs, df_all, years, districts, selected_years,
                   selected_districts, df_filtered, yearly_trend, yearly_change,
                   trend_table, avg_depth, markers, state_summary>>

(* lines 126-131 *)
YearlyPanel ==
    /\ pc = "yearly"
    /\ IF ~ empty(df_filtered)
       THEN LET r == YearlyMeans(df_filtered)
            IN  /\ aggregated' = aggregated \cup {"yearly"}
                /\ IF r.err = "none"
                   THEN /\ yearly_trend' = r.rows
                        /\ rendered' = Append(rendered, [panel |-> "yearly", kind |-> "chart"])
                        /\ pc' = "recharge"
                        /\ UNCHANGED error
                   ELSE /\ Fail(r.err, "yearly")
                        /\ UNCHANGED <<yearly_trend, rendered>>
       ELSE /\ pc' = "recharge"
            /\ UNCHANGED <<error, yearly_trend, rendered, aggregated>>
    /\ UNCHANGED <<uploaded_files, dfs, df_all, years, districts, selected_years,
                   selected_districts, df_filtered, stats_df, yearly_change,
                   trend_table, avg_depth, markers, state_summary>>

(* lines 136-168 *)
RechargePanel ==
    /\ pc = "recharge"
    /\ LET r == YearlyChange(df_filtered)
       IN  /\ aggregated' = aggregated \cup {"recharge"}
           /\ IF r.err # "none"
              THEN /\ Fail(r.err, "recharge")
                   /\ UNCHANGED <<yearly_change, trend_table, rendered>>
              ELSE /\ yearly_change' = r.rows
                   /\ pc' = "map"
                   /\ UNCHANGED error
                   /\ IF ~ AllDeltaNaN(r.rows)
                      THEN /\ trend_table' = TrendTable(r.rows)
                           /\ rendered' = rendered \o
                                 <<[panel |-> "recharge", kind |-> "dataframe"],
                                   [panel |-> "recharge", kind |-> "chart"]>>
                      ELSE /\ rendered' = Append(rendered, [panel |-> "recharge", kind |-> "info"])
                           /\ UNCHANGED trend_table
    /\ UNCHANGED <<uploaded_files, dfs, df_all, years, districts, selected_years,
                   selected_districts, df_filtered, stats_df, yearly_trend,
                   avg_depth, markers, state_summary>>

(* lines 173-185.  The map is centred on the mean station coordinate,      *)
(* which is NaN when avg_depth has no row; folium.Map rejects a NaN        *)
(* location with a ValueError.                                             *)
MapPanel ==
    /\ pc = "map"
    /\ LET r == AvgDepth(df_filtered)
       IN  /\ aggregated' = aggregated \cup {"map"}
           /\ IF r.err # "none"
              THEN /\ Fail(r.err, "map")
                   /\ UNCHANGED <<avg_depth, markers, rendered>>
              ELSE /\ avg_depth' = r.rows
                   /\ IF r.rows = <<>>
                      THEN /\ Fail("ValueError", "map")
                           /\ UNCHANGED <<markers, rendered>>
                      ELSE /\ markers' = Markers(r.rows)
                           /\ rendered' = Append(rendered, [panel |-> "map", kind |-> "map"])
                           /\ pc' = "depth"
                           /\ UNCHANGED error
    /\ UNCHANGED <<uploaded_files, dfs, df_all, years, districts, selected_years,
                   selected_districts, df_filtered, stats_df, yearly_trend, yearly_change,
                   trend_table, state_summary>>

(* lines 190-199 *)
DepthPanel ==
    /\ pc = "depth"
    /\ IF depth_cols(df_filtered) # {}
       THEN rendered' = Append(rendered, [panel |-> "depth", kind |-> "chart"])
       ELSE rendered' = Append(rendered, [panel |-> "depth", kind |-> "info"])
    /\ pc' = "state"
    /\ UNCHANGED <<uploaded_files, error, dfs, df_all, years, districts, selected_years,
                   selected_districts, df_filtered, stats_df, yearly_trend, yearly_change,
                   trend_table, avg_depth, markers, state_summary, aggregated>>

(* lines 204-209 *)
StatePanel ==
    /\ pc = "state"
    /\ IF ~ empty(df_filtered)
       THEN LET r == YearlyMeans(df_filtered)
            IN  /\ aggregated' = aggregated \cup {"state"}
                /\ IF r.err = "none"
                   THEN /\ state_summary' = r.rows
                        /\ rendered' = Append(rendered, [panel |-> "state", kind |-> "chart"])
                        /\ pc' = "done"
                        /\ UNCHANGED error
                   ELSE /\ Fail(r.err, "state")
                        /\ UNCHANGED <<state_summary, rendered>>
       ELSE /\ pc' = "done"
            /\ UNCHANGED <<error, state_summary, rendered, aggregated>>
    /\ UNCHANGED <<uploaded_files, dfs, df_all, years, districts, selected_years,
                   selected_districts, df_filtered, stats_df, yearly_trend, yearly_change,
                   trend_table, avg_depth, markers>>

(* any interaction re-executes the script from the top; nothing of the     *)
(* previous pass is kept                                                   *)
Rerun ==
    /\ pc \in {"done", "failed"}
    /\ pc' = "start"
    /\ error' = NoError
    /\ dfs' = <<>>
    /\ df_all' = EmptyTable
    /\ years' = <<>>
    /\ districts' = <<>>
    /\ selected_years' = {}
    /\ selected_districts' = {}
    /\ df_filtered' = EmptyTable
    /\ stats_df' = <<>>
    /\ yearly_trend' = <<>>
    /\ yearly_change' = <<>>
    /\ trend_table' = <<>>
    /\ avg_depth' = <<>>
    /\ markers' = <<>>
    /\ state_summary' = <<>>
    /\ rendered' = <<>>
    /\ aggregated' = {}
    /\ UNCHANGED uploaded_files

Next ==
    \/ Start
    \/ ReadFile
    \/ Concat
    \/ Sidebar
    \/ StatsPanel
    \/ YearlyPanel
    \/ RechargePanel
    \/ MapPanel
    \/ DepthPanel
    \/ StatePanel
    \/ Rerun

----------------------------------------------------------------------------
(* Uploads.  Each family of uploads varies some parts of the input over    *)
(* bounded sets and holds the rest at one typical value.                   *)

MaxNameLen == 3

MaxRows == 2

MaxFiles == 2

AllColumns == {"District", "Minimum", "Maximum", "Latitude", "Longitude"} \cup PercentColumns

MkRow(d, mn, mx, la, lo) ==
    [District |-> d, Year |-> Null, Minimum |-> mn, Maximum |-> mx,
     Latitude |-> la, Longitude |-> lo]

(* how the files spell a column in their header line *)
RawHeader(c) ==
    CASE c = "Latitude" -> <<" ", "Latitude">>
      [] c = "Maximum" -> <<"Maximum", "\n">>
      [] c = "District" -> <<" ", "District", " ">>
      [] c = "No of wells Monitored" -> <<"No of wells", "\n", "Monitored">>
      [] OTHER -> <<c>>

(* a CSV file: a record has no cell for a column the header lacks *)
CsvFile(name, cols, rows) ==
    LET Cells(r) ==
            [District  |-> IF "District" \in cols THEN r.District ELSE NaNDistrict,
             Year      |-> Null,
             Minimum   |-> IF "Minimum" \in cols THEN r.Minimum ELSE Null,
             Maximum   |-> IF "Maximum" \in cols THEN r.Maximum ELSE Null,
             Latitude  |-> IF "Latitude" \in cols THEN r.Latitude ELSE Null,
             Longitude |-> IF "Longitude" \in cols THEN r.Longitude ELSE Null]
    IN  [name |-> name, cols |-> {RawHeader(c) : c \in cols},
         rows |-> [k \in DOMAIN rows |-> Cells(rows[k])]]

TypicalRow(d) == MkRow(d, Some(3), Some(6), Some(120000), Some(790000))

SeqsUpTo(S, n) == UNION {[1..k -> S] : k \in 1..n}

File2020 == <<"2", "0", "2", "0">>

File2021 == <<"w", "l", "2", "0", "2", "1">>

File2022 == <<"2", "0", "2", "2", "v">>

FileNoDigit == <<"w", "l">>

YearFiles == <<File2020, File2021, File2022>>

(* filenames: every name of at most MaxNameLen characters over a letter,   *)
(* two decimal digits and a superscript digit                              *)
NameAlphabet == {"v", "0", "2", "sup2"}

NameUploads ==
    {<<CsvFile(n, {"S No", "No of wells Monitored", "District", "Minimum", "Maximum"},
               <<TypicalRow("Chennai")>>)>> :
        n \in SeqsUpTo(NameAlphabet, MaxNameLen)}

(* columns of one file: every subset of the expected columns, a District   *)
(* that is a key of district_coords, is not one, or is missing, and a      *)
(* Latitude cell that may be blank                                         *)
ColumnUploads ==
    {<<CsvFile(File2020, c, <<MkRow(d, Some(3), Some(6), la, Some(790000))>>)>> :
        c \in SUBSET AllColumns,
        d \in {"Chennai", "Salem", "chennai", "Ooty", NaNDistrict},
        la \in {Null, Some(120000)}}

(* several files, each lacking at most one of the expected columns *)
OneMissing == {AllColumns} \cup {AllColumns \ {c} : c \in AllColumns}

MixedColumnUploads ==
    {[k \in DOMAIN cs |-> CsvFile(YearFiles[k], cs[k], <<TypicalRow("Chennai")>>)] :
        cs \in SeqsUpTo(OneMissing, MaxFiles)}

(* several files, with and without digits in their names; the readings of  *)
(* a file without digits differ from the others                            *)
MixedNameUploads ==
    {[k \in DOMAIN fs |->
        CsvFile(fs[k][1], AllColumns,
                <<MkRow(fs[k][2], IF fs[k][1] = FileNoDigit THEN Some(7) ELSE Some(3),
                        Some(6), Some(120000), Some(790000))>>)] :
        fs \in SeqsUpTo({FileNoDigit, File2020, File2021} \X {"Chennai", "Salem"}, MaxFiles)}

(* one file of up to MaxRows readings *)
ReadingUploads ==
    {<<CsvFile(File2020, {"District", "Minimum", "Maximum"}, rs)>> :
        rs \in SeqsUpTo({MkRow(d, mn, mx, Null, Null) :
                            d \in {"Chennai", "Salem"},
                            mn \in {Some(3), Some(7)},
                            mx \in {Null, Some(6), Some(9)}}, MaxRows)}

(* three years of files, each with at most one reading per district *)
DistrictReadings(d) ==
    {<<>>} \cup {<<MkRow(d, Some(mn), Some(9), Null, Null)>> : mn \in {3, 7}}

YearUploads ==
    {[k \in DOMAIN YearFiles |->
        CsvFile(YearFiles[k], {"District", "Minimum", "Maximum"}, rs[k][1] \o rs[k][2])] :
        rs \in [DOMAIN YearFiles -> DistrictReadings("Salem") \X DistrictReadings("Chennai")]}

Uploads ==
    {<<>>} \cup NameUploads \cup ColumnUploads \cup MixedColumnUploads
           \cup MixedNameUploads \cup ReadingUploads \cup YearUploads

Init ==
    /\ uploaded_files \in Uploads
    /\ pc = "start"
    /\ Fresh

Spec == Init /\ [][Next]_vars

----------------------------------------------------------------------------
(* What the properties below read off a state *)

PanelIndex(p) == CHOOSE k \in DOMAIN PanelOrder : PanelOrder[k] = p

Panels == Range(PanelOrder)

(* the panels whose code has run in this pass, the failing one included *)
PanelsRun ==
    IF pc \in Panels THEN {p \in Panels : PanelIndex(p) < PanelIndex(pc)}
    ELSE IF pc = "done" /\ uploaded_files # <<>> THEN Panels
    ELSE IF pc = "failed" /\ error.at \in Panels
         THEN {p \in Panels : PanelIndex(p) <= PanelIndex(error.at)}
    ELSE {}

Shown(p) == {rendered[k].kind : k \in {j \in DOMAIN rendered : rendered[j].panel = p}}

Messages == {"warning", "info"}

RECURSIVE SumOfSet(_, _)
SumOfSet(S, cells) ==
    IF S = {} THEN 0
    ELSE LET k == CHOOSE x \in S : TRUE
         IN  cells[k][1] + SumOfSet(S \ {k}, cells)

(* the filtered readings of a district in a year that have a Minimum *)
MinimumReadings(d, y) ==
    {k \in DOMAIN df_filtered.rows :
        /\ df_filtered.rows[k].District = d
        /\ df_filtered.rows[k].Year = Some(y)
        /\ df_filtered.rows[k].Minimum # Null}

FilteredDistrictYears ==
    {<<df_filtered.rows[k].District, df_filtered.rows[k].Year[1]>> :
        k \in {j \in DOMAIN df_filtered.rows :
                 df_filtered.rows[j].District # NaNDistrict /\ df_filtered.rows[j].Year # Null}}

(* cell = the exact mean of the Minimum of the readings S (NaN when none) *)
IsMeanOf(cell, S) ==
    IF S = {} THEN cell = Null
    ELSE /\ cell # Null
         /\ cell[1][1] * Cardinality(S)
              = SumOfSet(S, Column(df_filtered.rows, "Minimum")) * cell[1][2]

----------------------------------------------------------------------------
(* C1.  Every displayed row of the yearly-change table is labelled         *)
(* Recharge iff DeltaWL > 0, Decline iff DeltaWL < 0, Stable iff           *)
(* DeltaWL = 0, and carries no label when DeltaWL is missing.              *)
C1_TrendLabel ==
    \A k \in DOMAIN trend_table :
        LET r == trend_table[k]
            d == r.DeltaWL
        IN  /\ r.Trend = "Recharge" <=> (d # Null /\ d[1][1] > 0)
            /\ r.Trend = "Decline" <=> (d # Null /\ d[1][1] < 0)
            /\ r.Trend = "Stable" <=> (d # Null /\ d[1][1] = 0)
            /\ d = Null => r.Trend \notin {"Recharge", "Decline", "Stable"}

(* what the code does: a row with a delta is labelled by its sign, and a   *)
(* row without one (a district's first year) is labelled Stable            *)
C1_LabelBySign ==
    \A k \in DOMAIN trend_table :
        LET r == trend_table[k]
            d == r.DeltaWL
        IN  /\ d # Null /\ d[1][1] > 0 => r.Trend = "Recharge"
            /\ d # Null /\ d[1][1] < 0 => r.Trend = "Decline"
            /\ d # Null /\ d[1][1] = 0 => r.Trend = "Stable"
            /\ d = Null => r.Trend = "Stable"

----------------------------------------------------------------------------
(* The year a filename spells, digit by digit *)

Digits(name) == {k \in DOMAIN name : isdigit(name[k])}

DigitNumber(c) == IF c = "sup2" THEN 2 ELSE DigitValue(c)

RECURSIVE Pow10(_)
Pow10(n) == IF n = 0 THEN 1 ELSE 10 * Pow10(n - 1)

RECURSIVE Spelled(_, _)
Spelled(name, S) ==
    IF S = {} THEN 0
    ELSE LET k == CHOOSE x \in S : TRUE
         IN  DigitNumber(name[k]) * Pow10(Cardinality({j \in Digits(name) : j > k}))
               + Spelled(name, S \ {k})

ClaimedYear(name) ==
    IF Digits(name) = {} THEN Null ELSE Some(Spelled(name, Digits(name)))

YearIsClaimed(k) ==
    \A i \in DOMAIN dfs[k].rows : dfs[k].rows[i].Year = ClaimedYear(uploaded_files[k].name)

(* C2.  normalize_df gives every row of a file whose name has a digit      *)
(* character the integer that the digit characters spell in filename       *)
(* order, and a missing Year when the name has no digit character: it      *)
(* returns such a table for every filename.                                *)
C2_YearFromFilenameDigits ==
    /\ \A k \in DOMAIN dfs : YearIsClaimed(k)
    /\ ~ (pc = "failed" /\ error = [kind |-> "ValueError", at |-> "normalize_df"])

(* the part of C2 that the code does keep: names whose digit characters    *)
(* are all decimal                                                         *)
C2_DecimalNames ==
    /\ \A k \in DOMAIN dfs : YearIsClaimed(k)
    /\ \A k \in DOMAIN uploaded_files :
          (\A i \in Digits(uploaded_files[k].name) :
               uploaded_files[k].name[i] \in DecimalDigits)
          => ~ (Len(dfs) = k - 1 /\ pc = "failed"
                /\ error = [kind |-> "ValueError", at |-> "normalize_df"])

----------------------------------------------------------------------------
(* Year-over-year change, read off the filtered dataset *)

RechargeComputed == "recharge" \in aggregated /\ ~ (pc = "failed" /\ error.at = "recharge")

EarlierYears(d, y) == {dy[2] : dy \in {x \in FilteredDistrictYears : x[1] = d /\ x[2] < y}}

DeltaIsYearOverYear(r) ==
    LET before == EarlierYears(r.District, r.Year)
        prev   == CHOOSE y \in before : \A z \in before : z <= y
        cur    == MinimumReadings(r.District, r.Year)
        old    == MinimumReadings(r.District, prev)
        n      == Cardinality(cur)
        m      == Cardinality(old)
        mins   == Column(df_filtered.rows, "Minimum")
    IN  IF before = {} \/ cur = {} \/ old = {} THEN r.DeltaWL = Null
        ELSE /\ r.DeltaWL # Null
             /\ r.DeltaWL[1][1] * (n * m)
                  = (SumOfSet(cur, mins) * m - SumOfSet(old, mins) * n) * r.DeltaWL[1][2]

(* C3.  yearly_change has one row per (District, Year) of the filtered     *)
(* dataset, ordered by District then Year; DeltaWL is missing in the       *)
(* first year present for a district and is otherwise that year's mean     *)
(* Minimum minus the mean Minimum of the previous year present for the     *)
(* same district.                                                          *)
C3_YearlyChange ==
    RechargeComputed =>
        /\ {<<yearly_change[k].District, yearly_change[k].Year>> : k \in DOMAIN yearly_change}
             = FilteredDistrictYears
        /\ \A k \in DOMAIN yearly_change :
              /\ IsMeanOf(yearly_change[k].Minimum,
                          MinimumReadings(yearly_change[k].District, yearly_change[k].Year))
              /\ DeltaIsYearOverYear(yearly_change[k])
        /\ \A j, k \in DOMAIN yearly_change :
              j < k => \/ Rank(yearly_change[j].District) < Rank(yearly_change[k].District)
                       \/ /\ yearly_change[j].District = yearly_change[k].District
                          /\ yearly_change[j].Year < yearly_change[k].Year

(* two districts, and a delta taken over a year that the filter left out *)
C3_Witness ==
    /\ RechargeComputed
    /\ \E j, k \in DOMAIN yearly_change :
          /\ yearly_change[j].District # yearly_change[k].District
          /\ yearly_change[j].DeltaWL # Null /\ yearly_change[j].DeltaWL[1][1] # 0
          /\ yearly_change[k].DeltaWL # Null
          /\ \E y \in Range(years) :
                /\ y \notin selected_years
                /\ \E i \in DOMAIN yearly_change :
                      /\ yearly_change[i].District = yearly_change[j].District
                      /\ yearly_change[i].Year < y[1] /\ y[1] < yearly_change[j].Year

----------------------------------------------------------------------------
(* Files that come without a coordinate column *)

(* the columns of an uploaded file, by their cleaned names *)
ColumnsOf(f) == NormalizeColumns(f.cols)

LacksCoords(f) == "Latitude" \notin ColumnsOf(f) \/ "Longitude" \notin ColumnsOf(f)

(* C4.  In every table returned by normalize_df for a file without a       *)
(* Latitude or without a Longitude column, each row's (Latitude,           *)
(* Longitude) is the district_coords entry whose key is exactly the row's  *)
(* District, or (11.0, 78.0) when no key is.                               *)
C4_CoordinateBackfill ==
    \A k \in DOMAIN dfs :
        LacksCoords(uploaded_files[k]) =>
            \A i \in DOMAIN dfs[k].rows :
                LET r == dfs[k].rows[i]
                IN  \/ \E key \in DOMAIN district_coords :
                          /\ key = r.District
                          /\ r.Latitude = Some(district_coords[key][1])
                          /\ r.Longitude = Some(district_coords[key][2])
                    \/ /\ r.District \notin DOMAIN district_coords
                       /\ r.Latitude = Some(110000)
                       /\ r.Longitude = Some(780000)

(* a file with a Latitude column only, whose District differs from a key   *)
(* in case alone                                                           *)
C4_Witness ==
    \E k \in DOMAIN dfs :
        /\ "Latitude" \in ColumnsOf(uploaded_files[k])
        /\ "Longitude" \notin ColumnsOf(uploaded_files[k])
        /\ \E i \in DOMAIN dfs[k].rows :
              /\ dfs[k].rows[i].District = "chennai"
              /\ dfs[k].rows[i].Latitude = Some(110000)

----------------------------------------------------------------------------
(* C5.  Every table normalize_df returns has a Year column, a Latitude     *)
(* column and a Longitude column.                                          *)
C5_OutputColumns ==
    \A k \in DOMAIN dfs : {"Year", "Latitude", "Longitude"} \subseteq dfs[k].cols

(* returned for a file that came with one of the two coordinate columns    *)
C5_Witness ==
    \E k \in DOMAIN dfs :
        /\ "Longitude" \in ColumnsOf(uploaded_files[k])
        /\ "Latitude" \notin ColumnsOf(uploaded_files[k])
        /\ dfs[k].rows # <<>>
        /\ dfs[k].rows[1].Year # Null

----------------------------------------------------------------------------
(* The Maximum readings of a group *)

StatsComputed == "stats" \in aggregated /\ ~ (pc = "failed" /\ error.at = "stats")

MaximumValues(d, y) ==
    {df_filtered.rows[k].Maximum[1] :
        k \in {j \in DOMAIN df_filtered.rows :
                 /\ df_filtered.rows[j].District = d
                 /\ df_filtered.rows[j].Year = Some(y)
                 /\ df_filtered.rows[j].Maximum # Null}}

(* C6.  calc_stats returns one row per (District, Year) group of its       *)
(* input, whose Range_MinMax is the largest Maximum of the group minus     *)
(* the smallest, and is never negative.                                    *)
C6_RangeMinMax ==
    StatsComputed =>
        /\ \A dy \in FilteredDistrictYears :
              Cardinality({k \in DOMAIN stats_df :
                              stats_df[k].District = dy[1] /\ stats_df[k].Year = dy[2]}) = 1
        /\ \A k \in DOMAIN stats_df :
              LET vals == MaximumValues(stats_df[k].District, stats_df[k].Year)
                  rng  == stats_df[k].Range_MinMax
              IN  /\ <<stats_df[k].District, stats_df[k].Year>> \in FilteredDistrictYears
                  /\ IF vals = {} THEN rng = Null
                     ELSE /\ rng # Null
                          /\ rng[1] >= 0
                          /\ \E hi, lo \in vals :
                                /\ \A v \in vals : lo <= v /\ v <= hi
                                /\ rng[1] = hi - lo

C6_Witness ==
    /\ StatsComputed
    /\ \E k \in DOMAIN stats_df :
          /\ stats_df[k].Range_MinMax # Null
          /\ stats_df[k].Range_MinMax[1] > 0

----------------------------------------------------------------------------
(* The readings behind a marker *)

StationReadings(m) ==
    {k \in DOMAIN df_filtered.rows :
        /\ df_filtered.rows[k].District = m.District
        /\ <<df_filtered.rows[k].Latitude, df_filtered.rows[k].Longitude>>
             = <<Some(m.location[1]), Some(m.location[2])>>
        /\ df_filtered.rows[k].Minimum # Null}

(* the station's average Minimum exists and is below 5 *)
AverageBelow5(m) ==
    LET S == StationReadings(m)
    IN  S # {} /\ SumOfSet(S, Column(df_filtered.rows, "Minimum")) < 5 * Cardinality(S)

(* C7.  Every marker of the map is red if the station's average Minimum    *)
(* over the filtered dataset is below 5, and blue otherwise.               *)
C7_RedBelowThreshold ==
    \A k \in DOMAIN markers :
        markers[k].color = IF AverageBelow5(markers[k]) THEN "red" ELSE "blue"

(* C7 as the code has it: blue below 5, red otherwise (an average that is  *)
(* missing is not below 5)                                                 *)
C7_BlueBelowThreshold ==
    \A k \in DOMAIN markers :
        /\ markers[k].color = IF AverageBelow5(markers[k]) THEN "blue" ELSE "red"
        /\ IsMeanOf(markers[k].Minimum, StationReadings(markers[k]))

(* a map with a station below 5, one at exactly 5 or above, drawn *)
C7_Witness ==
    /\ [panel |-> "map", kind |-> "map"] \in Range(rendered)
    /\ \E j, k \in DOMAIN markers :
          /\ markers[j].color = "blue"
          /\ markers[k].color = "red"
          /\ markers[k].Minimum # Null

----------------------------------------------------------------------------
(* C8.  In a pass whose filtered dataset is empty, every display panel     *)
(* shows an informational message instead of a chart and does no           *)
(* aggregation or chart rendering on the empty data.                       *)
C8_EveryPanelGuarded ==
    empty(df_filtered) =>
        \A p \in PanelsRun :
            /\ Shown(p) \cap Messages # {}
            /\ Shown(p) \subseteq Messages
            /\ p \notin aggregated

(* C8 as the code has it.  Descriptive statistics: a warning and no        *)
(* aggregation.  Yearly trends: no aggregation and no chart, but no        *)
(* message.  Recharge/decline: the group-by runs on the empty data, and    *)
(* the informational message replaces table and chart (a KeyError ends     *)
(* the pass instead when no file has a Minimum column).  Map: not          *)
(* guarded; the group-by runs on the empty data, no message is shown and   *)
(* the pass ends there, before depth distribution and state-wise summary.  *)
C8_GuardedPanels ==
    empty(df_filtered) =>
        /\ "stats" \in PanelsRun => Shown("stats") = {"warning"} /\ "stats" \notin aggregated
        /\ "yearly" \in PanelsRun => Shown("yearly") = {} /\ "yearly" \notin aggregated
        /\ "recharge" \in PanelsRun =>
              /\ "recharge" \in aggregated
              /\ Shown("recharge") = IF "Minimum" \in df_all.cols THEN {"info"} ELSE {}
              /\ "Minimum" \notin df_all.cols => pc = "failed" /\ error.at = "recharge"
        /\ "map" \in PanelsRun =>
              /\ "map" \in aggregated
              /\ Shown("map") = {}
              /\ pc = "failed" /\ error.at = "map"

(* data was uploaded, the selection left none of it, and the pass has run  *)
(* up to the map                                                           *)
C8_Witness ==
    /\ df_all.rows # <<>>
    /\ years # <<>>
    /\ empty(df_filtered)
    /\ "map" \in PanelsRun
    /\ Shown("stats") = {"warning"}
    /\ Shown("recharge") = {"info"}

----------------------------------------------------------------------------
(* The years that the uploaded filenames spell *)

DigitYears ==
    {ClaimedYear(uploaded_files[k].name)[1] :
        k \in {j \in DOMAIN uploaded_files : Digits(uploaded_files[j].name) # {}}}

(* C9.  Rows of a file whose name has no digit never reach the filtered    *)
(* dataset, the Year options never hold a missing entry, and no group of   *)
(* any panel is built from such rows.                                      *)
C9_NullYearExcluded ==
    /\ \A k \in DOMAIN df_filtered.rows : df_filtered.rows[k].Year # Null
    /\ Null \notin Range(years)
    /\ Null \notin selected_years
    /\ \A k \in DOMAIN stats_df :
          /\ stats_df[k].Year \in DigitYears
          /\ IsMeanOf(stats_df[k].Mean_Min,
                      MinimumReadings(stats_df[k].District, stats_df[k].Year))
    /\ \A k \in DOMAIN yearly_change : yearly_change[k].Year \in DigitYears
    /\ \A k \in DOMAIN yearly_trend : yearly_trend[k].Year \in DigitYears
    /\ \A k \in DOMAIN state_summary : state_summary[k].Year \in DigitYears

(* a completed pass over files with and without digits in their names *)
C9_Witness ==
    /\ pc = "done"
    /\ stats_df # <<>>
    /\ \E j, k \in DOMAIN df_all.rows :
          /\ df_all.rows[j].Year = Null
          /\ df_all.rows[k].Year # Null
          /\ df_all.rows[j].District = df_all.rows[k].District
          /\ df_all.rows[k] \in Range(df_filtered.rows)

----------------------------------------------------------------------------
(* Missing columns and the point of failure *)

Expected == {"District", "Minimum", "Maximum"}

NothingAfterFailure ==
    pc = "failed" =>
        \A k \in DOMAIN rendered :
            error.at \in Panels /\ PanelIndex(rendered[k].panel) < PanelIndex(error.at)

(* C10.  A pass in which an uploaded file lacks Minimum, Maximum or        *)
(* District ends in an unhandled failure whatever the filter selection,    *)
(* and no panel after the point of failure is rendered.                    *)
C10_MissingColumnFails ==
    /\ (\E k \in DOMAIN uploaded_files : ~ (Expected \subseteq ColumnsOf(uploaded_files[k])))
          => pc # "done"
    /\ NothingAfterFailure

NoFileHas(c) ==
    uploaded_files # <<>> /\ \A k \in DOMAIN uploaded_files : c \notin ColumnsOf(uploaded_files[k])

AfterRead == {"sidebar", "done"} \cup Panels

(* C10 as the code has it.  The pass fails in normalize_df at a file       *)
(* without District that also lacks Latitude or Longitude; at the filter   *)
(* options when no file has District; at descriptive statistics when no    *)
(* file has Minimum, or no file has Maximum, and the filtered dataset is   *)
(* not empty; at recharge/decline when no file has Minimum and the         *)
(* filtered dataset is empty.  Nothing after the failure is rendered.      *)
C10_WhereItFails ==
    /\ \A k \in DOMAIN uploaded_files :
          "District" \notin ColumnsOf(uploaded_files[k]) /\ LacksCoords(uploaded_files[k])
             => Len(dfs) < k /\ pc \notin AfterRead
    /\ NoFileHas("District") => pc \notin AfterRead
    /\ NoFileHas("Minimum") =>
          /\ pc \notin {"map", "depth", "state", "done"}
          /\ ~ empty(df_filtered) => pc \notin {"yearly", "recharge"}
    /\ NoFileHas("Maximum") /\ ~ empty(df_filtered) => pc \notin (AfterRead \ {"sidebar", "stats"})
    /\ NothingAfterFailure

(* no file has a Minimum column, the selection is empty, and the pass has  *)
(* failed in the recharge/decline panel after the statistics warning       *)
C10_Witness ==
    /\ NoFileHas("Minimum")
    /\ pc = "failed"
    /\ error = [kind |-> "KeyError", at |-> "recharge"]
    /\ rendered = <<[panel |-> "stats", kind |-> "warning"]>>

====
